---- MODULE Spec2Model ----
(***************************************************************************)
(* CloudGovClient (metrics/datagov_metrics/cloudgov.py): the token         *)
(* lifecycle, the list and release requests and the metadata fallback.     *)
(*                                                                         *)
(* Python values are tagged records, so that None, "", {} and [] stay      *)
(* distinct and Python truthiness can be computed as the interpreter does. *)
(* Every public method of the client is one action; the answers of the     *)
(* remote endpoints and the content of metadata.json are inputs of the     *)
(* call.  `last` records the most recent call: its arguments, the answers  *)
(* it consumed, the requests it sent (in order), the number of             *)
(* authenticate() and _load_user_metadata() invocations, the client state  *)
(* before the call and the returned value.  `ctor` records how the client  *)
(* was constructed: the arguments, the environment when the module was     *)
(* imported and the environment when the constructor ran.  `cli` is the    *)
(* position and the locals of a run of release_datasets.py.                *)
(*                                                                         *)
(* Spec is the client used as a library, SpecConstruct the import of the   *)
(* module followed by the construction of a client, SpecCli a run of the   *)
(* command-line script.                                                    *)
(***************************************************************************)
EXTENDS Integers, Sequences, FiniteSets, TLC

VARIABLES api_url, api_key, api_secret, org, space, token, headers, last,
          ctor, cli

vars == <<api_url, api_key, api_secret, org, space, token, headers, last,
          ctor, cli>>

-----------------------------------------------------------------------------
(* Python values *)

PyNone == [t |-> "None"]

PyStr(s) == [t |-> "str", v |-> s]

PyBool(b) == [t |-> "bool", v |-> b]

PyDict(d) == [t |-> "dict", v |-> d]

PyList(l) == [t |-> "list", v |-> l]

\* the value standing for "response.json() raised"
JsonError == [t |-> "error"]

EmptyMap == [k \in {} |-> PyNone]

\* bool(x)
Truthy(x) ==
    CASE x.t = "None" -> FALSE
      [] x.t = "str"  -> x.v # ""
      [] x.t = "bool" -> x.v
      [] x.t = "dict" -> DOMAIN x.v # {}
      [] x.t = "list" -> Len(x.v) > 0
      [] OTHER        -> TRUE

\* a or b
PyOr(a, b) == IF Truthy(a) THEN a ELSE b

\* str(x) as an f-string interpolates it
Format(x) ==
    CASE x.t = "None" -> "None"
      [] x.t = "str"  -> x.v
      [] OTHER        -> "?"

\* d.get(k, default); d is a PyDict
DictGet(d, k, default) == IF k \in DOMAIN d.v THEN d.v[k] ELSE default

\* d.update({k: val}) on a plain mapping
Update(d, k, val) == [x \in (DOMAIN d) \cup {k} |-> IF x = k THEN val ELSE d[x]]

\* len(x) is defined
HasLen(x) == x.t \in {"list", "dict", "str"}

-----------------------------------------------------------------------------
(* Bounds and input domains *)

\* longest resources array a list answer carries
MaxResources == 2

ArgUrls == {PyNone, PyStr("https://test.api.cloud.gov")}

ArgKeys == {PyNone, PyStr("test-key")}

ArgSecrets == {PyNone, PyStr("test-secret")}

ArgOrgs == {PyNone, PyStr("test-org")}

ArgSpaces == {PyStr("test-space")}

\* what os.getenv yielded when the module was imported
EnvKeys == {PyNone, PyStr("")}

EnvSecrets == {PyNone, PyStr("")}

EnvOrgs == {PyNone}

EnvSpaces == {PyNone}

\* os.getenv("CLOUDGOV_API_URL", "https://api.fr.cloud.gov")
CLOUDGOV_API_URL == PyStr("https://api.fr.cloud.gov")

AccessTokens == {PyStr("tok"), PyStr("tok2"), PyStr("")}

Raised == [raises |-> TRUE, status_code |-> 0, json |-> PyNone]

Answer(status, body) == [raises |-> FALSE, status_code |-> status, json |-> body]

\* the answer slot of a request the call never sends
NoAnswer == [raises |-> FALSE, status_code |-> -1, json |-> PyNone]

TokenBodies ==
    {PyDict([k \in {"access_token"} |-> tk]) : tk \in AccessTokens}
        \cup {PyDict([k \in {"token_type"} |-> PyStr("bearer")]),
              JsonError, PyList(<<>>)}

TokenAnswers ==
    {Raised, Answer(401, JsonError),
     Answer(201, PyDict([k \in {"access_token"} |-> PyStr("tok")]))}
        \cup {Answer(200, b) : b \in TokenBodies}

Resource(k, val) == PyDict([x \in {k} |-> PyStr(val)])

\* entries with a guid, with a guid and an id, with an id only, with neither
Resources ==
    {Resource("guid", "a"),
     PyDict([x \in {"guid", "id"} |-> IF x = "guid" THEN PyStr("b") ELSE PyStr("e")]),
     Resource("id", "c"),
     Resource("name", "f")}

RECURSIVE SeqsUpTo(_, _)
SeqsUpTo(S, n) ==
    IF n = 0 THEN {<<>>}
    ELSE LET shorter == SeqsUpTo(S, n - 1)
         IN shorter \cup {Append(s, e) : s \in shorter, e \in S}

ListBodies ==
    {PyDict([k \in {"resources"} |-> PyList(l)]) : l \in SeqsUpTo(Resources, MaxResources)}
        \cup {PyDict([k \in {"pagination"} |-> PyNone]),
              PyDict([k \in {"resources"} |-> PyNone]),
              JsonError}

ListAnswers ==
    {Raised, Answer(404, PyDict([k \in {"resources"} |-> PyList(<<Resource("guid", "a")>>)]))}
        \cup {Answer(200, b) : b \in ListBodies}

ReleaseAnswers ==
    {Raised} \cup {Answer(s, PyNone) : s \in {200, 201, 202, 204, 500}}

DatasetIds == {PyStr("ds1"), PyStr("ds2")}

MetadataArgs ==
    {PyNone, PyDict(EmptyMap), PyDict([k \in {"k"} |-> PyStr("v")])}

\* metadata.json: absent, present but open() fails, present but not JSON,
\* or present with a JSON object
MetadataFiles ==
    {[exists |-> FALSE, readable |-> FALSE, content |-> JsonError],
     [exists |-> TRUE, readable |-> FALSE, content |-> JsonError],
     [exists |-> TRUE, readable |-> TRUE, content |-> JsonError],
     [exists |-> TRUE, readable |-> TRUE,
      content |-> PyDict([k \in {"name"} |-> PyStr("Test User")])]}

\* the file slot of a call that never looks at metadata.json
NoFile == [exists |-> FALSE, readable |-> FALSE, content |-> PyNone]

-----------------------------------------------------------------------------
(* CloudGovClient *)

NoHeaders == [h \in {} |-> <<>>]

\* f"Bearer {self.token}"
Bearer(tok) == <<"Bearer ", Format(tok)>>

Request(method, url, hdrs, auth, data, body) ==
    [method |-> method, url |-> url, headers |-> hdrs, auth |-> auth,
     data |-> data, json |-> body]

\* variant: only the key is checked
CredentialsMissing_KeyOnly == ~Truthy(api_key)

\* not self.api_key or not self.api_secret
CredentialsMissing == ~Truthy(api_key) \/ ~Truthy(api_secret)

\* variant: any 2xx status counts as success
AuthStatusOk_Any2xx(status) == status \in 200..299

\* response.status_code == 200
AuthStatusOk(status) == status = 200

\* the POST of authenticate()
token_request ==
    Request("POST", <<Format(api_url), "/oauth/token">>, headers,
            <<api_key, api_secret>>, "grant_type=client_credentials", PyNone)

\* authenticate(): the returned value, the token and the session headers
\* after the call, and the requests sent
authenticate(resp) ==
    LET failed(sent) == [ret |-> PyBool(FALSE), token |-> token,
                         headers |-> headers, sent |-> sent]
    IN IF CredentialsMissing THEN failed(<<>>)
       ELSE IF resp.raises THEN failed(<<token_request>>)
       ELSE IF AuthStatusOk(resp.status_code)
            THEN IF resp.json.t # "dict"
                 THEN failed(<<token_request>>)
                 ELSE LET tok == DictGet(resp.json, "access_token", PyNone)
                      IN [ret |-> PyBool(TRUE), token |-> tok,
                          headers |-> Update(headers, "Authorization", Bearer(tok)),
                          sent |-> <<token_request>>]
            ELSE failed(<<token_request>>)

\* if not self.token: self.authenticate()
NeedsAuth == ~Truthy(token)

\* variant: the result of authenticate() is not looked at
lazy_authenticate_Unchecked(resp) ==
    IF NeedsAuth
    THEN [calls |-> 1, r |-> [authenticate(resp) EXCEPT !.ret = PyBool(TRUE)]]
    ELSE [calls |-> 0,
          r |-> [ret |-> PyBool(TRUE), token |-> token, headers |-> headers,
                 sent |-> <<>>]]

\* the guard of get_datasets and release_dataset: authenticate() is invoked
\* when no token is held; calls counts the invocations
lazy_authenticate(resp) ==
    IF NeedsAuth
    THEN [calls |-> 1, r |-> authenticate(resp)]
    ELSE [calls |-> 0,
          r |-> [ret |-> PyBool(TRUE), token |-> token, headers |-> headers,
                 sent |-> <<>>]]

\* variant: every status but a server error is taken as success
ListStatusOk_NotServerError(status) == status < 500

\* response.status_code == 200 in get_datasets
ListStatusOk(status) == status = 200

\* the GET of get_datasets()
list_request(hdrs) ==
    Request("GET", <<Format(api_url), "/v3/apps">>, hdrs, PyNone, PyNone, PyNone)

\* variant: the resources value is handed back without len() being taken
datasets_of_NoLen(resp) ==
    IF resp.raises THEN PyList(<<>>)
    ELSE IF ListStatusOk(resp.status_code)
         THEN IF resp.json.t # "dict" THEN PyList(<<>>)
              ELSE DictGet(resp.json, "resources", PyList(<<>>))
         ELSE PyList(<<>>)

\* what get_datasets returns once the answer to its GET is known; an
\* exception (the transport's, json()'s, .get's or len()'s) yields []
datasets_of(resp) ==
    IF resp.raises THEN PyList(<<>>)
    ELSE IF ListStatusOk(resp.status_code)
         THEN IF resp.json.t # "dict" THEN PyList(<<>>)
              ELSE LET datasets == DictGet(resp.json, "resources", PyList(<<>>))
                   IN IF HasLen(datasets) THEN datasets ELSE PyList(<<>>)
         ELSE PyList(<<>>)

\* get_datasets()
get_datasets(tokAns, resp) ==
    LET a == lazy_authenticate(tokAns)
    IN IF ~Truthy(a.r.ret)
       THEN [ret |-> PyList(<<>>), token |-> a.r.token, headers |-> a.r.headers,
             sent |-> a.r.sent, auth_calls |-> a.calls]
       ELSE [ret |-> datasets_of(resp), token |-> a.r.token,
             headers |-> a.r.headers,
             sent |-> Append(a.r.sent, list_request(a.r.headers)),
             auth_calls |-> a.calls]

\* variant: the handler of a read or parse error yields None
_load_user_metadata_NoneOnError(file) ==
    IF file.exists
    THEN IF file.readable /\ file.content # JsonError
         THEN file.content
         ELSE PyNone
    ELSE PyDict(EmptyMap)

\* _load_user_metadata()
_load_user_metadata(file) ==
    IF file.exists
    THEN IF file.readable /\ file.content # JsonError
         THEN file.content
         ELSE PyDict(EmptyMap)
    ELSE PyDict(EmptyMap)

\* if not metadata: the file is consulted
UsesFile(metadata) == ~Truthy(metadata)

\* variant: org and space change places
release_data_Swapped(dataset_id, metadata) ==
    [dataset_id |-> dataset_id, status |-> PyStr("released"),
     metadata |-> metadata, org |-> space, space |-> org]

\* the release payload
release_data(dataset_id, metadata) ==
    [dataset_id |-> dataset_id, status |-> PyStr("released"),
     metadata |-> metadata, org |-> org, space |-> space]

\* f"{self.api_url}/v3/datasets/{dataset_id}/release"
release_url(dataset_id) ==
    <<Format(api_url), "/v3/datasets/", Format(dataset_id), "/release">>

\* variant: every 2xx status is taken as success
ReleaseStatusOk_Any2xx(status) == status \in 200..299

\* response.status_code in [200, 201, 202]
ReleaseStatusOk(status) == status \in {200, 201, 202}

\* the part of release_dataset inside its try block, entered with the
\* session state a that the authentication guard left
release_body(a, dataset_id, metadata, file, resp) ==
    LET md == IF UsesFile(metadata) THEN _load_user_metadata(file) ELSE metadata
        req == Request("POST", release_url(dataset_id), a.r.headers, PyNone,
                       PyNone, release_data(dataset_id, md))
    IN [ret |-> PyBool(~resp.raises /\ ReleaseStatusOk(resp.status_code)),
        token |-> a.r.token, headers |-> a.r.headers,
        sent |-> Append(a.r.sent, req), auth_calls |-> a.calls,
        loads |-> IF UsesFile(metadata) THEN 1 ELSE 0]

\* release_dataset(dataset_id, metadata)
release_dataset(dataset_id, metadata, tokAns, file, resp) ==
    LET a == lazy_authenticate(tokAns)
    IN IF ~Truthy(a.r.ret)
       THEN [ret |-> PyBool(FALSE), token |-> a.r.token, headers |-> a.r.headers,
             sent |-> a.r.sent, auth_calls |-> a.calls, loads |-> 0]
       ELSE release_body(a, dataset_id, metadata, file, resp)

\* variant: authenticated follows the truth value of the token
get_connection_status_Truthy ==
    [api_url |-> api_url, authenticated |-> Truthy(token), org |-> org,
     space |-> space]

\* get_connection_status()
get_connection_status ==
    [api_url |-> api_url, authenticated |-> token # PyNone, org |-> org,
     space |-> space]

-----------------------------------------------------------------------------

Call(op, id, metadata, tokAns, ans, file, auth_calls, loads, r) ==
    [op |-> op, dataset_id |-> id, metadata |-> metadata, token_answer |-> tokAns,
     answer |-> ans, file |-> file, auth_calls |-> auth_calls, loads |-> loads,
     sent |-> r.sent, ret |-> r.ret, pre_token |-> token, pre_headers |-> headers]

Fields == {"api_url", "api_key", "api_secret", "org", "space"}

\* os.getenv(name, default) for a variable whose value is e (None: not set)
getenv(e, default) == IF e = PyNone THEN default ELSE e

\* the module-level CLOUDGOV_* names, bound when the module is imported
ModuleDefaults(imported) ==
    [f \in Fields |->
        IF f = "api_url" THEN getenv(imported[f], CLOUDGOV_API_URL)
        ELSE getenv(imported[f], PyNone)]

\* the attributes __init__ sets from its arguments
Attributes(args, imported) ==
    [f \in Fields |-> PyOr(args[f], ModuleDefaults(imported)[f])]

FieldRecord(u, k, s, o, p) ==
    [f \in Fields |->
        CASE f = "api_url" -> u [] f = "api_key" -> k [] f = "api_secret" -> s
          [] f = "org" -> o [] f = "space" -> p]

NoArgs == [f \in Fields |-> PyNone]

NoCall ==
    [op |-> "__init__", dataset_id |-> PyNone, metadata |-> PyNone,
     token_answer |-> NoAnswer, answer |-> NoAnswer, file |-> NoFile,
     auth_calls |-> 0, loads |-> 0, sent |-> <<>>, ret |-> PyNone,
     pre_token |-> PyNone, pre_headers |-> NoHeaders]

\* no run of the script is under way
CliIdle ==
    [pc |-> "idle", all |-> FALSE, dataset_id |-> PyNone, datasets |-> <<>>,
     i |-> 0, success_count |-> 0, fail_count |-> 0, released |-> <<>>,
     protected |-> 0, authenticated |-> FALSE, exit_code |-> -1]

\* the state CloudGovClient(**args) leaves, the module having been imported
\* under the environment `imported` and the constructor running under
\* `environ`
Constructed(args, imported, environ) ==
    LET a == Attributes(args, imported)
    IN /\ api_url = a["api_url"]
       /\ api_key = a["api_key"]
       /\ api_secret = a["api_secret"]
       /\ org = a["org"]
       /\ space = a["space"]
       /\ token = PyNone
       /\ headers = NoHeaders
       /\ last = NoCall
       /\ ctor = [args |-> args, imported |-> imported, environ |-> environ]

\* the constructions of Spec: an argument or the environment sets a field,
\* and the environment does not change after the import
Scenarios ==
    {sc \in [args : {FieldRecord(u, k, s, o, p) :
                        u \in ArgUrls, k \in ArgKeys, s \in ArgSecrets,
                        o \in ArgOrgs, p \in ArgSpaces},
             imported : {FieldRecord(PyNone, k, s, o, p) :
                        k \in EnvKeys, s \in EnvSecrets, o \in EnvOrgs,
                        p \in EnvSpaces}] :
        \A f \in Fields : sc.args[f] # PyNone => sc.imported[f] = PyNone}

\* CloudGovClient(api_url, api_key, api_secret, org, space)
Init ==
    /\ \E sc \in Scenarios : Constructed(sc.args, sc.imported, sc.imported)
    /\ cli = CliIdle

CallAuthenticate ==
    \E resp \in (IF CredentialsMissing THEN {NoAnswer} ELSE TokenAnswers) :
        LET r == authenticate(resp)
        IN /\ token' = r.token
           /\ headers' = r.headers
           /\ last' = Call("authenticate", PyNone, PyNone, resp, NoAnswer, NoFile,
                           1, 0, r)
           /\ UNCHANGED <<api_url, api_key, api_secret, org, space, ctor, cli>>

CallGetConnectionStatus ==
    /\ last' = Call("get_connection_status", PyNone, PyNone, NoAnswer, NoAnswer,
                    NoFile, 0, 0,
                    [sent |-> <<>>,
                     ret |-> PyDict([k \in {"api_url", "authenticated", "org", "space"} |->
                                CASE k = "api_url" -> get_connection_status.api_url
                                  [] k = "authenticated" -> PyBool(get_connection_status.authenticated)
                                  [] k = "org" -> get_connection_status.org
                                  [] k = "space" -> get_connection_status.space])])
    /\ UNCHANGED <<api_url, api_key, api_secret, org, space, token, headers,
                 ctor, cli>>

\* the token answers a call can consume
TokenInputs == IF NeedsAuth /\ ~CredentialsMissing THEN TokenAnswers ELSE {NoAnswer}

CallGetDatasets ==
    \E tokAns \in TokenInputs :
      \E resp \in (IF Truthy(lazy_authenticate(tokAns).r.ret)
                   THEN ListAnswers ELSE {NoAnswer}) :
        LET r == get_datasets(tokAns, resp)
        IN /\ token' = r.token
           /\ headers' = r.headers
           /\ last' = Call("get_datasets", PyNone, PyNone, tokAns, resp, NoFile,
                           r.auth_calls, 0, r)
           /\ UNCHANGED <<api_url, api_key, api_secret, org, space, ctor, cli>>

CallReleaseDataset ==
    \E dataset_id \in DatasetIds, metadata \in MetadataArgs, tokAns \in TokenInputs :
      LET proceeds == Truthy(lazy_authenticate(tokAns).r.ret)
      IN \E file \in (IF proceeds /\ UsesFile(metadata)
                      THEN MetadataFiles ELSE {NoFile}),
            resp \in (IF proceeds THEN ReleaseAnswers ELSE {NoAnswer}) :
           LET r == release_dataset(dataset_id, metadata, tokAns, file, resp)
           IN /\ token' = r.token
              /\ headers' = r.headers
              /\ last' = Call("release_dataset", dataset_id, metadata, tokAns,
                              resp, file, r.auth_calls, r.loads, r)
              /\ UNCHANGED <<api_url, api_key, api_secret, org, space, ctor, cli>>

Next ==
    \/ CallAuthenticate
    \/ CallGetDatasets
    \/ CallReleaseDataset
    \/ CallGetConnectionStatus

Spec == Init /\ [][Next]_vars

-----------------------------------------------------------------------------
(* Import of the module, then construction of a client *)

\* the environments of SpecConstruct (values of test_initialization_from_env)
Environments ==
    {FieldRecord(u, k, s, o, PyNone) :
        u \in {PyNone, PyStr("https://env.api.cloud.gov")},
        k \in EnvKeys \cup {PyStr("env-key")},
        s \in {PyNone, PyStr("env-secret")},
        o \in {PyNone, PyStr("env-org")}}

ConstructorArgs ==
    {FieldRecord(u, k, s, o, p) :
        u \in ArgUrls, k \in ArgKeys, s \in ArgSecrets, o \in ArgOrgs,
        p \in ArgSpaces \cup {PyNone}}

\* the module has been imported (load_dotenv and the five os.getenv calls
\* have run); no client exists yet
InitImport ==
    /\ \E imported \in Environments :
          ctor = [args |-> NoArgs, imported |-> imported, environ |-> imported]
    /\ api_url = PyNone /\ api_key = PyNone /\ api_secret = PyNone
    /\ org = PyNone /\ space = PyNone
    /\ token = PyNone
    /\ headers = NoHeaders
    /\ last = [NoCall EXCEPT !.op = "import"]
    /\ cli = CliIdle

\* CloudGovClient(**args), the environment being environ by then
Construct ==
    /\ last.op = "import"
    /\ \E args \in ConstructorArgs, environ \in Environments :
          LET a == Attributes(args, ctor.imported)
          IN /\ api_url' = a["api_url"]
             /\ api_key' = a["api_key"]
             /\ api_secret' = a["api_secret"]
             /\ org' = a["org"]
             /\ space' = a["space"]
             /\ token' = PyNone
             /\ headers' = NoHeaders
             /\ last' = NoCall
             /\ ctor' = [args |-> args, imported |-> ctor.imported,
                         environ |-> environ]
    /\ UNCHANGED cli

NextConstruct == Construct

SpecConstruct == InitImport /\ [][NextConstruct]_vars

-----------------------------------------------------------------------------
(* release_datasets.py *)

\* variant: the id key is not consulted
dataset_id_of_GuidOnly(dataset) == DictGet(dataset, "guid", PyStr("unknown"))

\* dataset.get("guid", dataset.get("id", "unknown"))
dataset_id_of(dataset) ==
    DictGet(dataset, "guid", DictGet(dataset, "id", PyStr("unknown")))

\* variant: one successful release is enough
all_released_AnySuccess(success_count, fail_count) == success_count > 0

\* return fail_count == 0
all_released(success_count, fail_count) == fail_count = 0

\* sys.exit(0 if success else 1)
exit_code_of(success) == IF success THEN 0 ELSE 1

\* the list and release requests among those a call sent
Protected(sent) ==
    Cardinality({k \in 1..Len(sent) :
                    sent[k].url # <<Format(api_url), "/oauth/token">>})

\* the environments the script is started in
CliEnvironments ==
    {FieldRecord(PyNone, k, PyStr("env-secret"), PyStr("env-org"), PyNone) :
        k \in {PyNone, PyStr("env-key")}}

\* main() up to the connection status: the arguments are parsed (--all or
\* --dataset-id ID) and CloudGovClient() is constructed
InitCli ==
    /\ \E imported \in CliEnvironments : Constructed(NoArgs, imported, imported)
    /\ \E all \in BOOLEAN, id \in DatasetIds :
          cli = [CliIdle EXCEPT !.pc = "authenticate", !.all = all,
                                !.dataset_id = IF all THEN PyNone ELSE id]

\* main(): client.authenticate(), exit 1 on failure
MainAuthenticate ==
    /\ cli.pc = "authenticate"
    /\ \E resp \in (IF CredentialsMissing THEN {NoAnswer} ELSE TokenAnswers) :
          LET r == authenticate(resp)
          IN /\ token' = r.token
             /\ headers' = r.headers
             /\ last' = Call("authenticate", PyNone, PyNone, resp, NoAnswer,
                             NoFile, 1, 0, r)
             /\ cli' = IF Truthy(r.ret)
                       THEN [cli EXCEPT !.authenticated = TRUE,
                                        !.pc = IF cli.all THEN "list" ELSE "release"]
                       ELSE [cli EXCEPT !.pc = "done", !.exit_code = 1]
    /\ UNCHANGED <<api_url, api_key, api_secret, org, space, ctor>>

\* release_single_dataset(client, dataset_id): client.release_dataset
\* without metadata, its result returned
release_single_dataset(dataset_id, tokAns, file, resp) ==
    release_dataset(dataset_id, PyNone, tokAns, file, resp)

\* main() with --dataset-id: release_single_dataset, then sys.exit
MainReleaseSingle ==
    /\ cli.pc = "release"
    /\ \E tokAns \in TokenInputs :
        LET proceeds == Truthy(lazy_authenticate(tokAns).r.ret)
        IN \E file \in (IF proceeds THEN MetadataFiles ELSE {NoFile}),
              resp \in (IF proceeds THEN ReleaseAnswers ELSE {NoAnswer}) :
             LET r == release_single_dataset(cli.dataset_id, tokAns, file, resp)
             IN /\ token' = r.token
                /\ headers' = r.headers
                /\ last' = Call("release_dataset", cli.dataset_id, PyNone, tokAns,
                                resp, file, r.auth_calls, r.loads, r)
                /\ cli' = [cli EXCEPT
                             !.pc = "done",
                             !.released = Append(@, [id |-> cli.dataset_id,
                                                     ok |-> Truthy(r.ret)]),
                             !.protected = @ + Protected(r.sent),
                             !.exit_code = exit_code_of(Truthy(r.ret))]
    /\ UNCHANGED <<api_url, api_key, api_secret, org, space, ctor>>

\* release_all_datasets up to its loop: get_datasets, False when nothing
\* is returned
MainList ==
    /\ cli.pc = "list"
    /\ \E tokAns \in TokenInputs :
        \E resp \in (IF Truthy(lazy_authenticate(tokAns).r.ret)
                     THEN ListAnswers ELSE {NoAnswer}) :
          LET r == get_datasets(tokAns, resp)
          IN /\ token' = r.token
             /\ headers' = r.headers
             /\ last' = Call("get_datasets", PyNone, PyNone, tokAns, resp, NoFile,
                             r.auth_calls, 0, r)
             /\ cli' = IF ~Truthy(r.ret)
                       THEN [cli EXCEPT !.pc = "done",
                                        !.protected = @ + Protected(r.sent),
                                        !.exit_code = exit_code_of(FALSE)]
                       ELSE [cli EXCEPT !.pc = "loop", !.datasets = r.ret.v,
                                        !.i = 1,
                                        !.protected = @ + Protected(r.sent)]
    /\ UNCHANGED <<api_url, api_key, api_secret, org, space, ctor>>

\* one iteration of the loop of release_all_datasets; after the last one
\* the function returns and main() exits
MainLoop ==
    /\ cli.pc = "loop"
    /\ \E tokAns \in TokenInputs :
        LET proceeds == Truthy(lazy_authenticate(tokAns).r.ret)
        IN \E file \in (IF proceeds THEN MetadataFiles ELSE {NoFile}),
              resp \in (IF proceeds THEN ReleaseAnswers ELSE {NoAnswer}) :
             LET dataset_id == dataset_id_of(cli.datasets[cli.i])
                 r == release_single_dataset(dataset_id, tokAns, file, resp)
                 sc == cli.success_count + (IF Truthy(r.ret) THEN 1 ELSE 0)
                 fc == cli.fail_count + (IF Truthy(r.ret) THEN 0 ELSE 1)
                 over == cli.i = Len(cli.datasets)
             IN /\ token' = r.token
                /\ headers' = r.headers
                /\ last' = Call("release_dataset", dataset_id, PyNone, tokAns,
                                resp, file, r.auth_calls, r.loads, r)
                /\ cli' = [cli EXCEPT
                             !.success_count = sc,
                             !.fail_count = fc,
                             !.i = @ + 1,
                             !.released = Append(@, [id |-> dataset_id,
                                                     ok |-> Truthy(r.ret)]),
                             !.protected = @ + Protected(r.sent),
                             !.pc = IF over THEN "done" ELSE "loop",
                             !.exit_code = IF over
                                           THEN exit_code_of(all_released(sc, fc))
                                           ELSE @]
    /\ UNCHANGED <<api_url, api_key, api_secret, org, space, ctor>>

NextCli ==
    \/ MainAuthenticate
    \/ MainReleaseSingle
    \/ MainList
    \/ MainLoop

SpecCli == InitCli /\ [][NextCli]_vars

-----------------------------------------------------------------------------
(* Properties *)

IsTokenRequest(r) == r.method = "POST" /\ r.url = <<Format(api_url), "/oauth/token">>

IsListRequest(r) == r.method = "GET" /\ r.url = <<Format(api_url), "/v3/apps">>

IsReleaseRequest(r) ==
    /\ r.method = "POST"
    /\ Len(r.url) = 4
    /\ r.url[1] = Format(api_url)
    /\ r.url[2] = "/v3/datasets/"
    /\ r.url[4] = "/release"

\* the positions of the requests of one kind among those the last call sent
Positions(P(_)) == {i \in 1..Len(last.sent) : P(last.sent[i])}

Unset(x) == x = PyNone \/ x = PyStr("")

CarriesBearer(hdrs, s) ==
    "Authorization" \in DOMAIN hdrs /\ hdrs["Authorization"] = <<"Bearer ", s>>

\* the token endpoint answered 200 with a JSON object whose access_token is a string
AnsweredWithToken(ans) ==
    /\ ~ans.raises
    /\ ans.status_code = 200
    /\ ans.json.t = "dict"
    /\ "access_token" \in DOMAIN ans.json.v
    /\ ans.json.v["access_token"].t = "str"

\* the authentication attempt that consumed ans cannot have succeeded: no
\* credentials, a transport exception, a status other than 200, or a body
\* that is not a JSON object
AuthenticationFails(ans) ==
    \/ Unset(api_key) \/ Unset(api_secret)
    \/ ans.raises
    \/ ans.status_code # 200
    \/ ans.json.t # "dict"

\* C1: with the key or the secret unset (None or ""), authenticate() returns
\* False, sends no request, and leaves the token and the session headers as
\* they were.
C1_NoCredentialsNoRequest ==
    (last.op = "authenticate" /\ (Unset(api_key) \/ Unset(api_secret))) =>
        /\ last.ret = PyBool(FALSE)
        /\ last.sent = <<>>
        /\ token = last.pre_token
        /\ headers = last.pre_headers

C1_Witness ==
    /\ last.op = "authenticate"
    /\ api_key = PyStr("test-key")
    /\ api_secret = PyStr("")
    /\ last.ret = PyBool(FALSE)

\* C2: with key and secret set and the token endpoint answering 200 with
\* access_token T, authenticate() sends exactly one POST to the token endpoint,
\* returns True, stores T, get_connection_status() reports authenticated, the
\* session header is Bearer T, and every list or release request of a later
\* call on that session carries Authorization: Bearer T.
C2_AuthenticateStoresToken ==
    /\ (/\ last.op = "authenticate"
        /\ ~Unset(api_key) /\ ~Unset(api_secret)
        /\ AnsweredWithToken(last.token_answer)) =>
            LET T == last.token_answer.json.v["access_token"]
            IN /\ last.ret = PyBool(TRUE)
               /\ Len(last.sent) = 1
               /\ IsTokenRequest(last.sent[1])
               /\ token = T
               /\ get_connection_status.authenticated
               /\ CarriesBearer(headers, T.v)
    /\ (/\ last.op \in {"get_datasets", "release_dataset"}
        /\ last.pre_token.t = "str"
        /\ CarriesBearer(last.pre_headers, last.pre_token.v)) =>
            \A i \in 1..Len(last.sent) :
                ~IsTokenRequest(last.sent[i]) =>
                    CarriesBearer(last.sent[i].headers, last.pre_token.v)

\* C3: when the token endpoint answers with a status other than 200 or the
\* token request raises, authenticate() returns False, the token and the
\* session headers stay as they were (a fresh client stays unauthenticated),
\* and exactly one token request was sent.
C3_AuthFailureKeepsState ==
    (/\ last.op = "authenticate"
     /\ ~Unset(api_key) /\ ~Unset(api_secret)
     /\ (last.token_answer.raises \/ last.token_answer.status_code # 200)) =>
        /\ last.ret = PyBool(FALSE)
        /\ token = last.pre_token
        /\ headers = last.pre_headers
        /\ (last.pre_token = PyNone => ~get_connection_status.authenticated)
        /\ Len(last.sent) = 1
        /\ IsTokenRequest(last.sent[1])

C3_Witness ==
    /\ last.op = "authenticate"
    /\ last.token_answer.status_code = 401
    /\ last.pre_token = PyStr("tok")
    /\ token = PyStr("tok")
    /\ last.ret = PyBool(FALSE)

\* C4: get_datasets() on a client whose token is unset invokes authenticate()
\* exactly once, before any list request; when that attempt fails the call
\* returns [] and sends no list request.
C4_ListAuthenticatesFirst ==
    (last.op = "get_datasets" /\ last.pre_token = PyNone) =>
        /\ last.auth_calls = 1
        /\ Cardinality(Positions(IsTokenRequest)) <= 1
        /\ \A i \in Positions(IsTokenRequest), j \in Positions(IsListRequest) : i < j
        /\ AuthenticationFails(last.token_answer) =>
               /\ last.ret = PyList(<<>>)
               /\ Positions(IsListRequest) = {}

C4_Witness ==
    /\ last.op = "get_datasets"
    /\ last.pre_token = PyNone
    /\ last.token_answer.status_code = 401
    /\ Len(last.sent) = 1
    /\ IsTokenRequest(last.sent[1])
    /\ last.ret = PyList(<<>>)

\* the last call got past the authentication guard of get_datasets and
\* release_dataset: a non-empty token was held, or the attempt succeeded
PassedGuard ==
    \/ (last.pre_token.t = "str" /\ last.pre_token.v # "")
    \/ ~AuthenticationFails(last.token_answer)

\* C5: whatever mapping the caller passes as metadata, release_dataset never
\* consults metadata.json and the payload's metadata is the mapping passed.
C5_ExplicitMetadataWins ==
    (last.op = "release_dataset" /\ last.metadata.t = "dict") =>
        /\ last.loads = 0
        /\ \A i \in Positions(IsReleaseRequest) :
               last.sent[i].json.metadata = last.metadata

\* C6: release_dataset(id) without metadata, with metadata.json absent,
\* unreadable or unparsable: the metadata loaded is {}, one release request
\* is sent with metadata {}, and the result is True exactly when the release
\* endpoint answers 200, 201 or 202 (True on 201).
C6_MetadataErrorNeverFailsRelease ==
    (/\ last.op = "release_dataset"
     /\ last.metadata = PyNone
     /\ PassedGuard
     /\ (~last.file.exists \/ ~last.file.readable \/ last.file.content = JsonError)) =>
        /\ last.loads = 1
        /\ Cardinality(Positions(IsReleaseRequest)) = 1
        /\ \A i \in Positions(IsReleaseRequest) :
               last.sent[i].json.metadata = PyDict(EmptyMap)
        /\ last.ret = PyBool(~last.answer.raises
                                /\ last.answer.status_code \in {200, 201, 202})
        /\ (~last.answer.raises /\ last.answer.status_code = 201) =>
               last.ret = PyBool(TRUE)

C6_Witness ==
    /\ last.op = "release_dataset"
    /\ last.metadata = PyNone
    /\ last.file.exists /\ last.file.readable /\ last.file.content = JsonError
    /\ last.answer.status_code = 201
    /\ last.ret = PyBool(TRUE)

\* C7: release_dataset returns True if and only if its release request
\* completed with status 200, 201 or 202; on a client that holds a token or
\* authenticates successfully exactly one release request is sent.
C7_ReleaseSuccessIff2xx ==
    (last.op = "release_dataset") =>
        /\ (last.ret = PyBool(TRUE)) <=>
               /\ Positions(IsReleaseRequest) # {}
               /\ ~last.answer.raises
               /\ last.answer.status_code \in {200, 201, 202}
        /\ last.ret \in {PyBool(TRUE), PyBool(FALSE)}
        /\ PassedGuard => Cardinality(Positions(IsReleaseRequest)) = 1

C7_Witness ==
    /\ last.op = "release_dataset"
    /\ Positions(IsReleaseRequest) # {}
    /\ last.answer.status_code = 204
    /\ last.ret = PyBool(FALSE)

\* C8: release_dataset on a client whose token is unset invokes
\* authenticate() first; when that attempt fails the call returns False,
\* sends no release request and does not consult metadata.json.
C8_ReleaseAuthenticatesFirst ==
    (last.op = "release_dataset" /\ last.pre_token = PyNone) =>
        /\ last.auth_calls = 1
        /\ \A i \in Positions(IsTokenRequest), j \in Positions(IsReleaseRequest) : i < j
        /\ AuthenticationFails(last.token_answer) =>
               /\ last.ret = PyBool(FALSE)
               /\ Positions(IsReleaseRequest) = {}
               /\ last.loads = 0

C8_Witness ==
    /\ last.op = "release_dataset"
    /\ last.pre_token = PyNone
    /\ last.metadata = PyNone
    /\ last.token_answer.status_code = 401
    /\ Len(last.sent) = 1
    /\ last.ret = PyBool(FALSE)

\* C9: on a fresh client with key and secret set, a token answer of 200 with
\* an access_token and a release answer of 202 make release_dataset(id)
\* return True after exactly one token request followed by exactly one POST
\* to /v3/datasets/{id}/release whose body has dataset_id = id, status =
\* "released" and the client's org and space.
C9_EndToEndRelease ==
    (/\ last.op = "release_dataset"
     /\ last.pre_token = PyNone /\ last.pre_headers = NoHeaders
     /\ ~Unset(api_key) /\ ~Unset(api_secret)
     /\ AnsweredWithToken(last.token_answer)
     /\ ~last.answer.raises /\ last.answer.status_code = 202) =>
        /\ last.ret = PyBool(TRUE)
        /\ Len(last.sent) = 2
        /\ IsTokenRequest(last.sent[1])
        /\ last.sent[2].method = "POST"
        /\ last.sent[2].url =
               <<api_url.v, "/v3/datasets/", last.dataset_id.v, "/release">>
        /\ last.sent[2].json.dataset_id = last.dataset_id
        /\ last.sent[2].json.status = PyStr("released")
        /\ last.sent[2].json.org = org
        /\ last.sent[2].json.space = space

C9_Witness ==
    /\ last.op = "release_dataset"
    /\ last.pre_token = PyNone /\ last.pre_headers = NoHeaders
    /\ AnsweredWithToken(last.token_answer)
    /\ last.answer.status_code = 202
    /\ last.dataset_id = PyStr("ds1")
    /\ org = PyStr("test-org")
    /\ last.ret = PyBool(TRUE)

\* C10: when get_datasets sends its list request, an answer of 200 makes it
\* return the resources array of the body as it is (same entries, same
\* order), [] when the body has no resources key; any other status or an
\* exception of the transport makes it return [].
C10_ListReturnsResources ==
    (last.op = "get_datasets" /\ Positions(IsListRequest) # {}) =>
        LET a == last.answer
        IN /\ (/\ ~a.raises /\ a.status_code = 200 /\ a.json.t = "dict"
               /\ "resources" \in DOMAIN a.json.v
               /\ a.json.v["resources"].t = "list") =>
                   last.ret = a.json.v["resources"]
           /\ (/\ ~a.raises /\ a.status_code = 200 /\ a.json.t = "dict"
               /\ "resources" \notin DOMAIN a.json.v) =>
                   last.ret = PyList(<<>>)
           /\ (a.raises \/ a.status_code # 200) => last.ret = PyList(<<>>)

C10_Witness ==
    /\ last.op = "get_datasets"
    /\ last.answer.status_code = 200
    /\ last.ret.t = "list"
    /\ Len(last.ret.v) = 2
    /\ last.ret.v[1] = Resource("guid", "a")
    /\ DictGet(last.ret.v[2], "guid", PyNone) = PyStr("b")

\* C11: get_connection_status() sends no request, reads no file, leaves the
\* token, the session headers and the configuration alone, and returns
\* {api_url, authenticated, org, space} with authenticated true exactly when
\* the token is not None; a call that follows another one with nothing in
\* between returns the same value.
C11_StatusIsPure ==
    /\ [](last.op = "get_connection_status" =>
            /\ last.sent = <<>>
            /\ last.loads = 0
            /\ last.auth_calls = 0
            /\ token = last.pre_token
            /\ headers = last.pre_headers
            /\ last.ret.t = "dict"
            /\ DOMAIN last.ret.v = {"api_url", "authenticated", "org", "space"}
            /\ last.ret.v["api_url"] = api_url
            /\ last.ret.v["org"] = org
            /\ last.ret.v["space"] = space
            /\ last.ret.v["authenticated"] = PyBool(token # PyNone))
    /\ [][(last'.op = "get_connection_status") =>
            /\ UNCHANGED <<api_url, api_key, api_secret, org, space, token, headers>>
            /\ (last.op = "get_connection_status" => last'.ret = last.ret)]_vars

C11_Witness ==
    /\ last.op = "get_connection_status"
    /\ token = PyStr("")
    /\ last.ret.v["authenticated"] = PyBool(TRUE)

\* C12: once the token is set it stays set: no step takes the token from a
\* value other than None back to None.
C12_StaysAuthenticated == [][token # PyNone => token' # PyNone]_vars

\* C13: an authenticate() call that returns True, and every call answered
\* with status 200, leaves the token set and get_connection_status()
\* reporting authenticated.
C13_SuccessMeansAuthenticated ==
    (/\ last.op = "authenticate"
     /\ (last.ret = PyBool(TRUE)
           \/ (~last.token_answer.raises /\ last.token_answer.status_code = 200
               /\ last.token_answer.json.t = "dict"))) =>
        /\ token # PyNone
        /\ get_connection_status.authenticated

\* the list or release request of the last call failed: an exception, a
\* status that is no success, or (for the list) a body that is no JSON object
ListFails ==
    last.answer.raises \/ last.answer.status_code # 200 \/ last.answer.json.t # "dict"

ReleaseFails ==
    last.answer.raises \/ last.answer.status_code \notin {200, 201, 202}

\* C14: every call of authenticate, get_datasets and release_dataset ends
\* with a returned value (a boolean, a boolean, a list), and each error kind
\* (no credentials, a failing status or an exception on any endpoint, a
\* malformed body, a missing or unparsable metadata file) yields False, resp.
\* the empty list, except that a metadata error alone fails nothing.
C14_ErrorsBecomeReturnValues ==
    /\ last.op = "authenticate" =>
          /\ last.ret \in {PyBool(TRUE), PyBool(FALSE)}
          /\ AuthenticationFails(last.token_answer) => last.ret = PyBool(FALSE)
    /\ last.op = "get_datasets" =>
          /\ last.ret.t = "list"
          /\ ((last.auth_calls = 1 /\ AuthenticationFails(last.token_answer))
                \/ ListFails) => last.ret = PyList(<<>>)
    /\ last.op = "release_dataset" =>
          /\ last.ret \in {PyBool(TRUE), PyBool(FALSE)}
          /\ ((last.auth_calls = 1 /\ AuthenticationFails(last.token_answer))
                \/ ReleaseFails) => last.ret = PyBool(FALSE)
          /\ (/\ ~(last.auth_calls = 1 /\ AuthenticationFails(last.token_answer))
              /\ ~ReleaseFails) => last.ret = PyBool(TRUE)

C14_Witness ==
    /\ last.op = "get_datasets"
    /\ ~last.answer.raises
    /\ last.answer.status_code = 200
    /\ last.answer.json = PyDict([k \in {"resources"} |-> PyNone])
    /\ last.ret = PyList(<<>>)

\* C15: one release_dataset call sends at most one release request and one
\* get_datasets call at most one list request, and every release_dataset
\* call on an authenticated client (token not None) sends exactly one
\* release request, so that n such calls send n.
C15_NoRetryNoDedup ==
    /\ last.op = "release_dataset" =>
          /\ Cardinality(Positions(IsReleaseRequest)) <= 1
          /\ last.pre_token # PyNone =>
                Cardinality(Positions(IsReleaseRequest)) = 1
    /\ last.op = "get_datasets" => Cardinality(Positions(IsListRequest)) <= 1

\* C18: a get_datasets or release_dataset call made while
\* get_connection_status() reports authenticated (token not None) does not
\* invoke authenticate() and sends no token request.
C18_NoAuthOnceAuthenticated ==
    (last.op \in {"get_datasets", "release_dataset"} /\ last.pre_token # PyNone) =>
        /\ last.auth_calls = 0
        /\ Positions(IsTokenRequest) = {}

\* C19: every list or release request is sent while the token is set and
\* carries Authorization: Bearer followed by that token.
C19_ProtectedRequestsCarryToken ==
    \A i \in Positions(IsListRequest) \cup Positions(IsReleaseRequest) :
        /\ token # PyNone
        /\ token.t = "str"
        /\ CarriesBearer(last.sent[i].headers, token.v)

Attribute(f) ==
    CASE f = "api_url" -> api_url [] f = "api_key" -> api_key
      [] f = "api_secret" -> api_secret [] f = "org" -> org [] f = "space" -> space

\* C16: after construction each field is the explicit argument, else the
\* value the CLOUDGOV_* variable has when the constructor runs, else absent
\* (for the endpoint: absent or the documented default URL); the token is
\* unset, the session has no header and nothing was sent.
C16_ConfigResolution ==
    (last.op = "__init__") =>
        /\ \A f \in Fields :
              IF ctor.args[f] # PyNone THEN Attribute(f) = ctor.args[f]
              ELSE IF ctor.environ[f] # PyNone THEN Attribute(f) = ctor.environ[f]
              ELSE \/ Attribute(f) = PyNone
                   \/ (f = "api_url" /\ Attribute(f) = PyStr("https://api.fr.cloud.gov"))
        /\ token = PyNone
        /\ headers = NoHeaders
        /\ last.sent = <<>>

\* the run of the script is over
Exited == cli.pc = "done"

\* every release the run made returned True
EveryReleaseSucceeded == \A k \in 1..Len(cli.released) : cli.released[k].ok

\* the initial authentication failed: exit 1, no list or release request
AuthFailureExits ==
    (Exited /\ ~cli.authenticated) =>
        /\ cli.exit_code = 1
        /\ cli.protected = 0
        /\ cli.released = <<>>

IdOfResource(dataset) ==
    IF "guid" \in DOMAIN dataset.v THEN dataset.v["guid"]
    ELSE IF "id" \in DOMAIN dataset.v THEN dataset.v["id"]
    ELSE PyStr("unknown")

\* C20: in --all mode the k-th release is the release of the k-th listed
\* resource under its guid, else its id, else "unknown"; releases are made
\* one after the other whatever the earlier ones returned, the counters add
\* up to the releases made, and when the loop is over every listed resource
\* was released exactly once.
C20_BatchLoop ==
    (cli.all /\ cli.datasets # <<>>) =>
        /\ cli.pc \in {"loop", "done"}
        /\ Len(cli.released) = cli.i - 1
        /\ Len(cli.released) <= Len(cli.datasets)
        /\ \A k \in 1..Len(cli.released) :
              cli.released[k].id = IdOfResource(cli.datasets[k])
        /\ cli.released # <<>> =>
              /\ last.op = "release_dataset"
              /\ last.dataset_id = cli.released[Len(cli.released)].id
              /\ last.ret = PyBool(cli.released[Len(cli.released)].ok)
        /\ cli.success_count =
              Cardinality({k \in 1..Len(cli.released) : cli.released[k].ok})
        /\ cli.success_count + cli.fail_count = Len(cli.released)
        /\ Exited <=> Len(cli.released) = Len(cli.datasets)

\* a loop that went on after a failed release of a resource without guid
\* or id and then released a resource under its id
C20_Witness ==
    /\ Exited
    /\ cli.all
    /\ Len(cli.datasets) = 2
    /\ cli.released[1] = [id |-> PyStr("unknown"), ok |-> FALSE]
    /\ cli.released[2] = [id |-> PyStr("c"), ok |-> TRUE]
    /\ cli.success_count = 1
    /\ cli.fail_count = 1

====
